---- MODULE Spec2Model ----
(***************************************************************************)
(* Model of the challenge server of main.go: the registry activeChallenges *)
(* guarded by challengeMutex, the three HTTP handlers run by concurrent    *)
(* request goroutines, and the cleanup goroutine driven by a 2 s ticker.   *)
(*                                                                         *)
(* Time is a discrete clock `now` counted in ticks, Second ticks to the    *)
(* second.  Coordinates are small integers, for which the float64 squares  *)
(* and sums of distance3D are exact; a distance is kept in hundredths      *)
(* (the precision of the "%.2f" the handlers print), which is strictly     *)
(* monotone in the exact distance over the coordinates used here, so every *)
(* comparison `dist < minDistance` has the outcome it has in the code.     *)
(***************************************************************************)
EXTENDS Integers, Sequences, FiniteSets, TLC

\* ---------------------------------------------------------------- bounds
NumWorkers == 2      \* concurrent request goroutines
MaxTime == 3         \* the clock stops advancing here
MaxIssues == 2       \* GET /mission/coordinates requests over a run
MaxAnswers == 2      \* POST /mission/coordinates requests over a run
MaxStatus == 1       \* GET /status requests over a run
IdSpace == 2         \* challenge ids drawn (stands for rand.Intn(999999))
MaxLen == 3          \* longest candidate list of the geometry specification
LiveHorizon == 4     \* the clock stops advancing here in the fair specification

\* ------------------------------------------------------- program constants
Second == 1                       \* ticks per time.Second
AnswerDeadline == 1 * Second      \* main.go:166
CleanupAge == 2 * Second          \* main.go:105
TickerPeriod == 2 * Second        \* main.go:244
MinTargets == 5                   \* main.go:80
TargetSpread == 4                 \* main.go:80, rand.Intn(4)

Workers == 1..NumWorkers
Sweeper == 0                      \* the cleanup goroutine, as a lock holder
NoHolder == -1
Nil == 0                          \* the nil *ChallengeData

\* ---------------------------------------------------------------- geometry
Coord(id, x, y, z) == [ID |-> id, X |-> x, Y |-> y, Z |-> z]

RECURSIVE SqrtSearch(_, _, _)
SqrtSearch(n, lo, hi) ==
    IF lo = hi THEN lo
    ELSE LET mid == (lo + hi + 1) \div 2
         IN  IF mid * mid <= n THEN SqrtSearch(n, mid, hi)
                               ELSE SqrtSearch(n, lo, mid - 1)

\* math.Sqrt, in hundredths: the largest r with (r/100)^2 <= n
Sqrt(n) == SqrtSearch(10000 * n, 0, 100 * n + 1)

distance3D(p1, p2) ==
    LET dx == p1.X - p2.X
        dy == p1.Y - p2.Y
        dz == p1.Z - p2.Z
    IN  Sqrt(dx * dx + dy * dy + dz * dz)

\* mutant: `<=` for `<`, the last of the candidates at the minimum wins
RECURSIVE ClosestScanLastTie(_, _, _, _, _)
ClosestScanLastTie(playerPos, targets, i, closestID, minDistance) ==
    IF i > Len(targets) THEN closestID
    ELSE LET dist == distance3D(playerPos, targets[i])
         IN  IF dist <= minDistance
             THEN ClosestScanLastTie(playerPos, targets, i + 1, targets[i].ID, dist)
             ELSE ClosestScanLastTie(playerPos, targets, i + 1, closestID, minDistance)

\* the loop of findClosestTarget over targets[i..], carrying its two locals
RECURSIVE ClosestScan(_, _, _, _, _)
ClosestScan(playerPos, targets, i, closestID, minDistance) ==
    IF i > Len(targets) THEN closestID
    ELSE LET dist == distance3D(playerPos, targets[i])
         IN  IF dist < minDistance
             THEN ClosestScan(playerPos, targets, i + 1, targets[i].ID, dist)
             ELSE ClosestScan(playerPos, targets, i + 1, closestID, minDistance)

\* mutant: the loop is never entered
findFirstTarget(playerPos, targets) ==
    IF Len(targets) = 0 THEN "" ELSE targets[1].ID

findClosestTarget(playerPos, targets) ==
    IF Len(targets) = 0 THEN ""
    ELSE ClosestScan(playerPos, targets, 2, targets[1].ID,
                     distance3D(playerPos, targets[1]))

\* ---------------------------------------------------------------- generator
PlayerPos == Coord("PLAYER", 0, 0, 0)

\* What the shared random source can deliver for the coordinates of one
\* challenge: stream s gives the (x, y, z) of targets 1..8 in draw order.
RandCoords ==
    << << <<10,0,0>>, <<3,0,0>>, <<0,4,0>>, <<6,8,0>>,
          <<0,0,-5>>, <<7,0,0>>, <<1,1,1>>, <<0,-9,0>> >>,
       << <<0,3,0>>, <<3,0,0>>, <<5,0,0>>, <<0,0,6>>,
          <<4,4,2>>, <<8,0,0>>, <<2,-2,1>>, <<9,0,0>> >> >>

\* the draws of the random source
IdDraws == 0..(IdSpace - 1)               \* of rand.Intn(999999)
CountDraws == 0..(TargetSpread - 1)       \* of rand.Intn(4)
Streams == 1..Len(RandCoords)

TargetID(i) == "T" \o ToString(i)
ChallengeIDOf(n) == "TARG-" \o ToString(n)
ChallengeIDs == { ChallengeIDOf(n) : n \in IdDraws }

\* the bodies a client can post: closest_target_id among these, or no JSON
ClosestIDs == {"T1", "T2", "T9", ""}
Bodies(ids, closest) ==
    [parses : {TRUE}, ChallengeID : {ChallengeIDOf(n) : n \in ids}, ClosestID : closest]
Malformed == [parses |-> FALSE, ChallengeID |-> "", ClosestID |-> ""]

\* mutant: the count is rand.Intn(4) alone, the 5 is forgotten
generateChallengeNoMin(idDraw, countDraw, stream, wall) ==
    [ ChallengeID |-> ChallengeIDOf(idDraw),
      PlayerPos   |-> PlayerPos,
      Targets     |-> [ i \in 1..countDraw |->
                          Coord(TargetID(i), RandCoords[stream][i][1],
                                RandCoords[stream][i][2],
                                RandCoords[stream][i][3]) ],
      Timestamp   |-> wall \div Second ]

\* generateChallenge with its random draws made explicit: idDraw is
\* rand.Intn(999999), countDraw is rand.Intn(4), stream the Float64 draws.
generateChallenge(idDraw, countDraw, stream, wall) ==
    LET numTargets == MinTargets + countDraw
    IN  [ ChallengeID |-> ChallengeIDOf(idDraw),
          PlayerPos   |-> PlayerPos,
          Targets     |-> [ i \in 1..numTargets |->
                              Coord(TargetID(i), RandCoords[stream][i][1],
                                    RandCoords[stream][i][2],
                                    RandCoords[stream][i][3]) ],
          Timestamp   |-> wall \div Second ]

\* ------------------------------------------------------------------- state
VARIABLES
    now,               \* the wall clock, in ticks
    tickerC,           \* TRUE when a tick waits in ticker.C (buffer of one)
    activeChallenges,  \* the map: challenge id -> *ChallengeData (Nil: no key)
    heap,              \* the ChallengeData values allocated so far; a pointer
                       \* is an index into this sequence
    rwWriter,          \* holder of challengeMutex.Lock, or NoHolder
    rwReaders,         \* holders of challengeMutex.RLock
    pc,                \* where each request goroutine stands
    response,          \* local `response` of coordinatesAnswerHandler
    challenge,         \* local `challenge` of coordinatesChallengeHandler
    expectedAnswer,    \* local `expectedAnswer` of coordinatesChallengeHandler
    challengeData,     \* local `challengeData` of coordinatesAnswerHandler
    elapsed,           \* local `elapsed` of coordinatesAnswerHandler
    lastDone,          \* the response of the request that returned last
    sweeperPc,         \* where the cleanup goroutine stands
    workload,          \* the traffic of this run: requests per handler and
                       \* the draws and bodies they are made of
    started,           \* requests started so far, per handler
    removedBy,         \* history: what took each allocated record out of the map
    geoOrigin,         \* geometry specification: the origin point
    geoTargets,        \* geometry specification: the candidate list
    geoResult          \* geometry specification: findClosestTarget's result

vars == << now, tickerC, activeChallenges, heap, rwWriter, rwReaders, pc,
           response, challenge, expectedAnswer, challengeData, elapsed,
           lastDone, sweeperPc, workload, started, removedBy, geoOrigin,
           geoTargets, geoResult >>

locals == << response, challenge, expectedAnswer, challengeData, elapsed >>
mutex == << rwWriter, rwReaders >>
store == << activeChallenges, heap, removedBy >>
clock == << now, tickerC >>
geo == << geoOrigin, geoTargets, geoResult, workload >>

NoResponse == [ChallengeID |-> "", ClosestID |-> ""]
NoChallenge == [ChallengeID |-> "", PlayerPos |-> Coord("", 0, 0, 0),
                Targets |-> << >>, Timestamp |-> 0]
NoOutcome == [handler |-> "none", code |-> 0, verdict |-> "NONE",
              challenge_id |-> "", data |-> Nil, elapsed |-> 0,
              correct_target |-> "", chosen_target |-> "",
              correct_distance |-> 0, chosen_distance |-> 0, count |-> 0]

NoGeo == "unset"

\* The runs explored: concurrent submissions and re-issues on one identifier
\* with plain content; several identifiers with the sweeper and the status
\* query; one challenge and one submission over every draw and every body.
Workloads ==
    { [issue |-> MaxIssues, answer |-> MaxAnswers, status |-> 0,
       ids |-> {0}, counts |-> {0}, streams |-> {1}, closest |-> {"T1", "T2"},
       horizon |-> MaxTime],
      [issue |-> MaxIssues, answer |-> MaxAnswers - 1, status |-> MaxStatus,
       ids |-> IdDraws, counts |-> {0}, streams |-> {1}, closest |-> {"T2"},
       horizon |-> MaxTime],
      [issue |-> MaxIssues - 1, answer |-> MaxAnswers - 1, status |-> 0,
       ids |-> {0}, counts |-> CountDraws, streams |-> Streams,
       closest |-> ClosestIDs, horizon |-> MaxTime] }

\* The run of the fair specification: one request per handler, plain content,
\* and a clock that reaches the ticker's second tick.
FairLoad ==
    [issue |-> MaxIssues - 1, answer |-> MaxAnswers - 1, status |-> MaxStatus,
     ids |-> {0}, counts |-> {0}, streams |-> {1}, closest |-> {"T2"},
     horizon |-> LiveHorizon]

InitServer ==
    /\ now = 0
    /\ tickerC = FALSE
    /\ activeChallenges = [id \in ChallengeIDs |-> Nil]
    /\ heap = << >>
    /\ rwWriter = NoHolder
    /\ rwReaders = {}
    /\ pc = [w \in Workers |-> "idle"]
    /\ response = [w \in Workers |-> NoResponse]
    /\ challenge = [w \in Workers |-> NoChallenge]
    /\ expectedAnswer = [w \in Workers |-> ""]
    /\ challengeData = [w \in Workers |-> Nil]
    /\ elapsed = [w \in Workers |-> 0]
    /\ lastDone = NoOutcome
    /\ sweeperPc = "wait"
    /\ started = [issue |-> 0, answer |-> 0, status |-> 0]
    /\ removedBy = << >>

Init ==
    /\ InitServer
    /\ workload \in Workloads
    /\ geoOrigin = PlayerPos
    /\ geoTargets = << >>
    /\ geoResult = NoGeo

\* ------------------------------------------------------------ sync.RWMutex
CanLock == rwWriter = NoHolder /\ rwReaders = {}
CanRLock == rwWriter = NoHolder

\* ------------------------------------------------------------------- clock
\* mutant: the ticker never delivers a tick
TickNoTicker ==
    /\ now < workload.horizon
    /\ now' = now + 1
    /\ UNCHANGED << tickerC, store, mutex, pc, locals, lastDone, sweeperPc, started, geo >>

\* Time passes; the ticker of main drops a tick into ticker.C every
\* TickerPeriod (a tick that finds the channel full is dropped).
Tick ==
    /\ now < workload.horizon
    /\ now' = now + 1
    /\ tickerC' = IF now' % TickerPeriod = 0 THEN TRUE ELSE tickerC
    /\ UNCHANGED << store, mutex, pc, locals, lastDone, sweeperPc, started, geo >>

\* ------------------------------------------- coordinatesChallengeHandler
\* lines 116-119: generate the challenge and compute the expected answer
IssueGenerate(w) ==
    /\ pc[w] = "idle"
    /\ started.issue < workload.issue
    /\ \E idDraw \in workload.ids, countDraw \in workload.counts,
          stream \in workload.streams :
          LET c == generateChallenge(idDraw, countDraw, stream, now)
          IN  /\ challenge' = [challenge EXCEPT ![w] = c]
              /\ expectedAnswer' = [expectedAnswer EXCEPT
                                      ![w] = findClosestTarget(c.PlayerPos, c.Targets)]
    /\ started' = [started EXCEPT !.issue = @ + 1]
    /\ pc' = [pc EXCEPT ![w] = "issue_lock"]
    /\ UNCHANGED << clock, store, mutex, response, challengeData, elapsed,
                    lastDone, sweeperPc, geo >>

\* line 122
IssueLock(w) ==
    /\ pc[w] = "issue_lock"
    /\ CanLock
    /\ rwWriter' = w
    /\ pc' = [pc EXCEPT ![w] = "issue_store"]
    /\ UNCHANGED << clock, store, rwReaders, locals, lastDone, sweeperPc, started, geo >>

\* mutant: an identifier already in the map keeps its record
IssueStoreKeepsOld(w) ==
    /\ pc[w] = "issue_store"
    /\ LET id == challenge[w].ChallengeID
           old == activeChallenges[id]
           ptr == Len(heap) + 1
       IN  /\ heap' = Append(heap, [Challenge |-> challenge[w],
                                    ExpectedAnswer |-> expectedAnswer[w],
                                    CreatedAt |-> now])
           /\ activeChallenges' = IF old = Nil
                                  THEN [activeChallenges EXCEPT ![id] = ptr]
                                  ELSE activeChallenges
           /\ removedBy' = Append(removedBy,
                                  IF old = Nil THEN "none" ELSE "overwrite")
           /\ lastDone' = [NoOutcome EXCEPT !.handler = "issue", !.code = 200,
                                              !.challenge_id = id, !.data = ptr]
    /\ rwWriter' = NoHolder
    /\ challenge' = [challenge EXCEPT ![w] = NoChallenge]
    /\ expectedAnswer' = [expectedAnswer EXCEPT ![w] = ""]
    /\ pc' = [pc EXCEPT ![w] = "idle"]
    /\ UNCHANGED << clock, rwReaders, response, challengeData, elapsed,
                    sweeperPc, started, geo >>

\* lines 123-143: allocate the record and put its pointer under the id,
\* unlock, encode the challenge to the client and return
IssueStore(w) ==
    /\ pc[w] = "issue_store"
    /\ LET id == challenge[w].ChallengeID
           old == activeChallenges[id]
           ptr == Len(heap) + 1
       IN  /\ heap' = Append(heap, [Challenge |-> challenge[w],
                                    ExpectedAnswer |-> expectedAnswer[w],
                                    CreatedAt |-> now])
           /\ activeChallenges' = [activeChallenges EXCEPT ![id] = ptr]
           /\ removedBy' = Append(IF old = Nil THEN removedBy
                                  ELSE [removedBy EXCEPT ![old] = "overwrite"],
                                  "none")
           /\ lastDone' = [NoOutcome EXCEPT !.handler = "issue", !.code = 200,
                                              !.challenge_id = id, !.data = ptr]
    /\ rwWriter' = NoHolder
    /\ challenge' = [challenge EXCEPT ![w] = NoChallenge]
    /\ expectedAnswer' = [expectedAnswer EXCEPT ![w] = ""]
    /\ pc' = [pc EXCEPT ![w] = "idle"]
    /\ UNCHANGED << clock, rwReaders, response, challengeData, elapsed,
                    sweeperPc, started, geo >>

\* --------------------------------------------- coordinatesAnswerHandler
\* lines 149-153: decode the body; a body that does not parse is answered
\* 400 "Invalid JSON" and the handler returns
AnswerDecode(w) ==
    /\ pc[w] = "idle"
    /\ started.answer < workload.answer
    /\ started' = [started EXCEPT !.answer = @ + 1]
    /\ \E body \in Bodies(workload.ids, workload.closest) \cup {Malformed} :
          IF ~body.parses
          THEN /\ lastDone' = [NoOutcome EXCEPT !.handler = "answer", !.code = 400]
               /\ UNCHANGED << response, pc >>
          ELSE /\ UNCHANGED lastDone
               /\ response' = [response EXCEPT ![w] =
                                 [ChallengeID |-> body.ChallengeID,
                                  ClosestID |-> body.ClosestID]]
               /\ pc' = [pc EXCEPT ![w] = "answer_rlock"]
    /\ UNCHANGED << clock, store, mutex, challenge, expectedAnswer,
                    challengeData, elapsed, sweeperPc, geo >>

\* line 155
AnswerRLock(w) ==
    /\ pc[w] = "answer_rlock"
    /\ CanRLock
    /\ rwReaders' = rwReaders \cup {w}
    /\ pc' = [pc EXCEPT ![w] = "answer_lookup"]
    /\ UNCHANGED << clock, store, rwWriter, locals, lastDone, sweeperPc, started, geo >>

\* mutant: the RUnlock of line 157 is missing
AnswerLookupKeepsRLock(w) ==
    /\ pc[w] = "answer_lookup"
    /\ challengeData' = [challengeData EXCEPT
                           ![w] = activeChallenges[response[w].ChallengeID]]
    /\ pc' = [pc EXCEPT ![w] = "answer_check"]
    /\ UNCHANGED << clock, store, mutex, response, challenge, expectedAnswer,
                    elapsed, lastDone, sweeperPc, started, geo >>

\* lines 156-157: challengeData, exists := activeChallenges[id]; RUnlock
\* (exists is challengeData # Nil: the map never holds a nil pointer)
AnswerLookup(w) ==
    /\ pc[w] = "answer_lookup"
    /\ challengeData' = [challengeData EXCEPT
                           ![w] = activeChallenges[response[w].ChallengeID]]
    /\ rwReaders' = rwReaders \ {w}
    /\ pc' = [pc EXCEPT ![w] = "answer_check"]
    /\ UNCHANGED << clock, store, rwWriter, response, challenge, expectedAnswer,
                    elapsed, lastDone, sweeperPc, started, geo >>

\* the handler returns: its frame is gone
Return(w) ==
    /\ pc' = [pc EXCEPT ![w] = "idle"]
    /\ response' = [response EXCEPT ![w] = NoResponse]
    /\ challengeData' = [challengeData EXCEPT ![w] = Nil]
    /\ elapsed' = [elapsed EXCEPT ![w] = 0]

\* mutant: both distances are taken from the expected target
RECURSIVE FeedbackScanExpectedOnly(_, _, _, _, _, _, _)
FeedbackScanExpectedOnly(playerPos, targets, i, expected, chosen, correctDistance, chosenDistance) ==
    IF i > Len(targets) THEN << correctDistance, chosenDistance >>
    ELSE LET dist == distance3D(playerPos, targets[i])
         IN  FeedbackScanExpectedOnly(playerPos, targets, i + 1, expected, chosen,
                 IF targets[i].ID = expected THEN dist ELSE correctDistance,
                 IF targets[i].ID = expected THEN dist ELSE chosenDistance)

\* the loop of lines 190-199, carrying correctDistance and chosenDistance
RECURSIVE FeedbackScan(_, _, _, _, _, _, _)
FeedbackScan(playerPos, targets, i, expected, chosen, correctDistance, chosenDistance) ==
    IF i > Len(targets) THEN << correctDistance, chosenDistance >>
    ELSE LET dist == distance3D(playerPos, targets[i])
         IN  FeedbackScan(playerPos, targets, i + 1, expected, chosen,
                 IF targets[i].ID = expected THEN dist ELSE correctDistance,
                 IF targets[i].ID = chosen THEN dist ELSE chosenDistance)

\* mutant: `>=` for `>`
LateAtDeadline(e) == e >= AnswerDeadline

\* line 166: elapsed > time.Second
Late(e) == e > AnswerDeadline

\* mutant: an id that is none of the targets is rejected, not graded
GradeRejectsUnknown(resp, data, ptr, e) ==
    IF Late(e)
    THEN [NoOutcome EXCEPT !.handler = "answer", !.code = 408,
            !.verdict = "EXPIRED", !.challenge_id = resp.ChallengeID,
            !.data = ptr, !.elapsed = e, !.chosen_target = resp.ClosestID]
    ELSE IF resp.ClosestID = data.ExpectedAnswer
    THEN [NoOutcome EXCEPT !.handler = "answer", !.code = 200,
            !.verdict = "SUCCESS", !.challenge_id = resp.ChallengeID,
            !.data = ptr, !.elapsed = e, !.chosen_target = resp.ClosestID]
    ELSE IF \A i \in DOMAIN data.Challenge.Targets :
                data.Challenge.Targets[i].ID # resp.ClosestID
    THEN [NoOutcome EXCEPT !.handler = "answer", !.code = 400,
            !.challenge_id = resp.ChallengeID, !.data = ptr, !.elapsed = e,
            !.chosen_target = resp.ClosestID]
    ELSE LET d == FeedbackScan(data.Challenge.PlayerPos, data.Challenge.Targets,
                               1, data.ExpectedAnswer, resp.ClosestID, 0, 0)
         IN  [NoOutcome EXCEPT !.handler = "answer", !.code = 400,
                !.verdict = "FAILURE", !.challenge_id = resp.ChallengeID,
                !.data = ptr, !.elapsed = e,
                !.correct_target = data.ExpectedAnswer,
                !.chosen_target = resp.ClosestID,
                !.correct_distance = d[1], !.chosen_distance = d[2]]

\* lines 164-214: the verdict written to the client for the record at ptr,
\* e after its CreatedAt
Grade(resp, data, ptr, e) ==
    IF Late(e)
    THEN [NoOutcome EXCEPT !.handler = "answer", !.code = 408,
            !.verdict = "EXPIRED", !.challenge_id = resp.ChallengeID,
            !.data = ptr, !.elapsed = e, !.chosen_target = resp.ClosestID]
    ELSE IF resp.ClosestID = data.ExpectedAnswer
    THEN [NoOutcome EXCEPT !.handler = "answer", !.code = 200,
            !.verdict = "SUCCESS", !.challenge_id = resp.ChallengeID,
            !.data = ptr, !.elapsed = e, !.chosen_target = resp.ClosestID]
    ELSE LET d == FeedbackScan(data.Challenge.PlayerPos, data.Challenge.Targets,
                               1, data.ExpectedAnswer, resp.ClosestID, 0, 0)
         IN  [NoOutcome EXCEPT !.handler = "answer", !.code = 400,
                !.verdict = "FAILURE", !.challenge_id = resp.ChallengeID,
                !.data = ptr, !.elapsed = e,
                !.correct_target = data.ExpectedAnswer,
                !.chosen_target = resp.ClosestID,
                !.correct_distance = d[1], !.chosen_distance = d[2]]

\* line 169: the handler returns right after the 408
ReturnsAfter(verdict) == verdict = "EXPIRED"

\* mutant: the rejected submission deletes its identifier on the way out
NotFoundConsumes(w) ==
    /\ lastDone' = [NoOutcome EXCEPT !.handler = "answer", !.code = 404,
                      !.challenge_id = response[w].ChallengeID]
    /\ activeChallenges' = [activeChallenges EXCEPT ![response[w].ChallengeID] = Nil]
    /\ Return(w)
    /\ UNCHANGED << heap, removedBy >>

\* lines 159-162: the id was absent: 404, and the handler returns
NotFound(w) ==
    /\ lastDone' = [NoOutcome EXCEPT !.handler = "answer", !.code = 404,
                      !.challenge_id = response[w].ChallengeID]
    /\ Return(w)
    /\ UNCHANGED store

\* lines 159-214: not found, or read the clock and write the verdict, then
\* either return (408) or go on to remove the record
AnswerCheck(w) ==
    /\ pc[w] = "answer_check"
    /\ IF challengeData[w] = Nil
       THEN NotFound(w)
       ELSE LET e == now - heap[challengeData[w]].CreatedAt
                v == Grade(response[w], heap[challengeData[w]], challengeData[w], e)
            IN  /\ IF ReturnsAfter(v.verdict)
                   THEN /\ lastDone' = v
                        /\ Return(w)
                   ELSE /\ elapsed' = [elapsed EXCEPT ![w] = e]
                        /\ pc' = [pc EXCEPT ![w] = "answer_lock"]
                        /\ UNCHANGED << lastDone, response, challengeData >>
                /\ UNCHANGED store
    /\ UNCHANGED << clock, mutex, challenge, expectedAnswer, sweeperPc, started, geo >>

\* line 217
AnswerLock(w) ==
    /\ pc[w] = "answer_lock"
    /\ CanLock
    /\ rwWriter' = w
    /\ pc' = [pc EXCEPT ![w] = "answer_delete"]
    /\ UNCHANGED << clock, store, rwReaders, locals, lastDone, sweeperPc, started, geo >>

\* what the handler at answer_lock or answer_delete wrote at lines 174-213
Written(w) == Grade(response[w], heap[challengeData[w]], challengeData[w], elapsed[w])

\* mutant: the handler unlocks and returns without the delete
AnswerDeleteSkips(w) ==
    /\ pc[w] = "answer_delete"
    /\ lastDone' = Written(w)
    /\ rwWriter' = NoHolder
    /\ Return(w)
    /\ UNCHANGED << clock, store, rwReaders, challenge, expectedAnswer,
                    sweeperPc, started, geo >>

\* lines 218-220: delete(activeChallenges, response.ChallengeID); Unlock;
\* the handler returns and its response is complete
AnswerDelete(w) ==
    /\ pc[w] = "answer_delete"
    /\ LET id == response[w].ChallengeID
           old == activeChallenges[id]
       IN  /\ activeChallenges' = [activeChallenges EXCEPT ![id] = Nil]
           /\ removedBy' = IF old = Nil THEN removedBy
                           ELSE [removedBy EXCEPT ![old] = "answer"]
    /\ lastDone' = Written(w)
    /\ rwWriter' = NoHolder
    /\ Return(w)
    /\ UNCHANGED << clock, heap, rwReaders, challenge, expectedAnswer,
                    sweeperPc, started, geo >>

\* ------------------------------------------------------------ statusHandler
\* line 224
StatusRLock(w) ==
    /\ pc[w] = "idle"
    /\ started.status < workload.status
    /\ CanRLock
    /\ started' = [started EXCEPT !.status = @ + 1]
    /\ rwReaders' = rwReaders \cup {w}
    /\ pc' = [pc EXCEPT ![w] = "status_count"]
    /\ UNCHANGED << clock, store, rwWriter, locals, lastDone, sweeperPc, geo >>

\* lines 225-236: count, release, report
StatusCount(w) ==
    /\ pc[w] = "status_count"
    /\ rwReaders' = rwReaders \ {w}
    /\ lastDone' = [NoOutcome EXCEPT !.handler = "status", !.code = 200,
                        !.count = Cardinality({id \in ChallengeIDs :
                                                 activeChallenges[id] # Nil})]
    /\ pc' = [pc EXCEPT ![w] = "idle"]
    /\ UNCHANGED << clock, store, rwWriter, locals, sweeperPc, started, geo >>

\* ------------------------------------- cleanup goroutine (main, lines 243-249)
\* line 246: receive a tick
SweeperTick ==
    /\ sweeperPc = "wait"
    /\ tickerC
    /\ tickerC' = FALSE
    /\ sweeperPc' = "lock"
    /\ UNCHANGED << now, store, mutex, pc, locals, lastDone, started, geo >>

\* line 102
SweeperLock ==
    /\ sweeperPc = "lock"
    /\ CanLock
    /\ rwWriter' = Sweeper
    /\ sweeperPc' = "clean"
    /\ UNCHANGED << clock, store, rwReaders, pc, locals, lastDone, started, geo >>

\* mutant: After for Before
StaleAfter(data, cutoff) == data.CreatedAt > cutoff

\* line 107: data.CreatedAt.Before(cutoff)
Stale(data, cutoff) == data.CreatedAt < cutoff

\* mutant: the cutoff is time.Now(), the 2 s are forgotten
SweeperCleanNoGrace ==
    /\ sweeperPc = "clean"
    /\ LET cutoff == now
           gone == {id \in ChallengeIDs : /\ activeChallenges[id] # Nil
                                          /\ Stale(heap[activeChallenges[id]], cutoff)}
       IN  /\ activeChallenges' = [id \in ChallengeIDs |->
                                     IF id \in gone THEN Nil ELSE activeChallenges[id]]
           /\ removedBy' = [p \in DOMAIN removedBy |->
                              IF \E id \in gone : activeChallenges[id] = p
                              THEN "sweep" ELSE removedBy[p]]
    /\ rwWriter' = NoHolder
    /\ sweeperPc' = "wait"
    /\ UNCHANGED << clock, heap, rwReaders, pc, locals, lastDone, started, geo >>

\* lines 105-110, then the deferred Unlock of line 103; back to ticker.C
SweeperClean ==
    /\ sweeperPc = "clean"
    /\ LET cutoff == now - CleanupAge
           gone == {id \in ChallengeIDs : /\ activeChallenges[id] # Nil
                                          /\ Stale(heap[activeChallenges[id]], cutoff)}
       IN  /\ activeChallenges' = [id \in ChallengeIDs |->
                                     IF id \in gone THEN Nil ELSE activeChallenges[id]]
           /\ removedBy' = [p \in DOMAIN removedBy |->
                              IF \E id \in gone : activeChallenges[id] = p
                              THEN "sweep" ELSE removedBy[p]]
    /\ rwWriter' = NoHolder
    /\ sweeperPc' = "wait"
    /\ UNCHANGED << clock, heap, rwReaders, pc, locals, lastDone, started, geo >>

\* -------------------------------------------------------------- specification
Next ==
    \/ Tick
    \/ \E w \in Workers : IssueGenerate(w)
    \/ \E w \in Workers : IssueLock(w)
    \/ \E w \in Workers : IssueStore(w)
    \/ \E w \in Workers : AnswerDecode(w)
    \/ \E w \in Workers : AnswerRLock(w)
    \/ \E w \in Workers : AnswerLookup(w)
    \/ \E w \in Workers : AnswerCheck(w)
    \/ \E w \in Workers : AnswerLock(w)
    \/ \E w \in Workers : AnswerDelete(w)
    \/ \E w \in Workers : StatusRLock(w)
    \/ \E w \in Workers : StatusCount(w)
    \/ SweeperTick
    \/ SweeperLock
    \/ SweeperClean

Spec == Init /\ [][Next]_vars

\* --------------------------------------------------- fair specification
\* The same steps under the scheduling the Go runtime gives: time passes and
\* the ticker fires, the cleanup goroutine and every handler that has started
\* keep being scheduled, and a goroutine waiting for challengeMutex gets it
\* once it is free.  Whether a client sends a request is left open.
InitFair ==
    /\ InitServer
    /\ workload = FairLoad
    /\ geoOrigin = PlayerPos
    /\ geoTargets = << >>
    /\ geoResult = NoGeo

Fairness ==
    /\ WF_vars(Tick)
    /\ WF_vars(SweeperTick)
    /\ WF_vars(SweeperLock)
    /\ WF_vars(SweeperClean)
    /\ \A w \in Workers :
          /\ WF_vars(IssueLock(w))
          /\ WF_vars(IssueStore(w))
          /\ WF_vars(AnswerRLock(w))
          /\ WF_vars(AnswerLookup(w))
          /\ WF_vars(AnswerCheck(w))
          /\ WF_vars(AnswerLock(w))
          /\ WF_vars(AnswerDelete(w))
          /\ WF_vars(StatusCount(w))

SpecFair == InitFair /\ [][Next]_vars /\ Fairness

\* ----------------------------------------------- geometry specification
\* findClosestTarget applied to every candidate list of up to MaxLen points
\* of GeoPoints (identifiers T1, T2, ... in input order) and two origins.
GeoPoints == { <<3,0,0>>, <<0,3,0>>, <<10,0,0>>, <<1,1,1>>, <<0,0,0>> }
GeoOrigins == { PlayerPos, Coord("PLAYER", 1, 1, 1) }
GeoLists ==
    UNION { { [ i \in 1..n |-> Coord(TargetID(i), f[i][1], f[i][2], f[i][3]) ] :
                f \in [1..n -> GeoPoints] } : n \in 0..MaxLen }

InitGeo ==
    /\ InitServer
    /\ workload \in Workloads
    /\ geoOrigin \in GeoOrigins
    /\ geoTargets \in GeoLists
    /\ geoResult = NoGeo

GeoApply ==
    /\ geoResult = NoGeo
    /\ geoResult' = findClosestTarget(geoOrigin, geoTargets)
    /\ UNCHANGED << clock, store, mutex, pc, locals, lastDone, sweeperPc, started,
                    workload, geoOrigin, geoTargets >>

NextGeo == GeoApply

SpecGeo == InitGeo /\ [][NextGeo]_vars

\* ------------------------------------------------------------------ claims
Graded == {"answer_lock", "answer_delete"}    \* a SUCCESS or FAILURE is written
TargetIDs(data) == { data.Challenge.Targets[i].ID : i \in DOMAIN data.Challenge.Targets }
DistanceTo(data, id) ==
    distance3D(data.Challenge.PlayerPos,
               CHOOSE t \in { data.Challenge.Targets[i] : i \in DOMAIN data.Challenge.Targets } :
                   t.ID = id)
Stored == { activeChallenges[id] : id \in ChallengeIDs } \ {Nil}

\* C1: of two concurrent submissions naming one identifier, exactly one
\* receives the record and is graded; no two submissions in flight hold a
\* verdict computed from the same record.
C1_OneSubmissionGraded ==
    \A w1, w2 \in Workers :
        (w1 # w2 /\ pc[w1] \in Graded /\ pc[w2] \in Graded)
            => challengeData[w1] # challengeData[w2]

\* C2: a submission's consumption and the sweeper's removal of a record
\* exclude each other; no verdict is computed from a record the sweeper has
\* already removed.
C2_NoVerdictFromSweptRecord ==
    [][\A w \in Workers :
          (pc[w] = "answer_check" /\ pc'[w] # "answer_check" /\ challengeData[w] # Nil)
              => removedBy[challengeData[w]] # "sweep"]_vars

\* C3: a submission graded EXPIRED has removed its record from the map by
\* the time it has returned.
C3_ExpiredConsumes ==
    lastDone.verdict = "EXPIRED"
        => activeChallenges[lastDone.challenge_id] # lastDone.data

\* C4: a submission that found its record is graded EXPIRED exactly when
\* more than one second had passed since CreatedAt, whatever target it chose;
\* otherwise its verdict is SUCCESS or FAILURE.
C4_ExpiredIffLate ==
    /\ (lastDone.handler = "answer" /\ lastDone.data # Nil)
          => /\ lastDone.verdict \in {"SUCCESS", "FAILURE", "EXPIRED"}
             /\ lastDone.verdict = "EXPIRED" <=> lastDone.elapsed > AnswerDeadline
    /\ \A w \in Workers :
          pc[w] \in Graded
              => /\ elapsed[w] <= AnswerDeadline
                 /\ Written(w).verdict \in {"SUCCESS", "FAILURE"}

C4_Witness ==
    /\ lastDone.verdict = "EXPIRED"
    /\ lastDone.chosen_target = heap[lastDone.data].ExpectedAnswer

\* C5: within the deadline the verdict is SUCCESS iff the chosen id is the
\* record's expected answer; any other id among the targets gets FAILURE with
\* the expected id, the chosen id and the distances from the player position
\* to these two targets.
C5_VerdictAndDistances ==
    \A w \in Workers :
        pc[w] \in Graded =>
            LET data == heap[challengeData[w]]
                chosen == response[w].ClosestID
                v == Written(w)
            IN  /\ v.verdict = "SUCCESS" <=> chosen = data.ExpectedAnswer
                /\ (chosen # data.ExpectedAnswer /\ chosen \in TargetIDs(data))
                      => /\ v.verdict = "FAILURE"
                         /\ v.correct_target = data.ExpectedAnswer
                         /\ v.chosen_target = chosen
                         /\ v.correct_distance = DistanceTo(data, data.ExpectedAnswer)
                         /\ v.chosen_distance = DistanceTo(data, chosen)

C5_Witness ==
    \E w \in Workers :
        /\ pc[w] = "answer_delete"
        /\ Written(w).verdict = "FAILURE"
        /\ Written(w).correct_target = "T2"
        /\ Written(w).chosen_target = "T1"
        /\ Written(w).correct_distance = 300
        /\ Written(w).chosen_distance = 1000

\* C6: once a submission graded SUCCESS or FAILURE has returned, the map holds
\* under its identifier nothing, or a record issued later than the graded one.
C6_GradedConsumes ==
    (lastDone.handler = "answer" /\ lastDone.verdict \in {"SUCCESS", "FAILURE"})
        => \/ activeChallenges[lastDone.challenge_id] = Nil
           \/ activeChallenges[lastDone.challenge_id] > lastDone.data

C6_Witness ==
    /\ lastDone.verdict = "SUCCESS"
    /\ activeChallenges[lastDone.challenge_id] = Nil
    /\ removedBy[lastDone.data] = "answer"

\* C7: a sweep removes every record created before now - 2 s and keeps,
\* unchanged, every record created after it (and adds none).
C7_SweepRemovesOldKeepsYoung ==
    [][(sweeperPc = "clean" /\ sweeperPc' # "clean") =>
          \A id \in ChallengeIDs :
              LET p == activeChallenges[id]
              IN  IF p = Nil THEN activeChallenges'[id] = Nil
                  ELSE /\ heap[p].CreatedAt < now - CleanupAge
                            => activeChallenges'[id] = Nil
                       /\ heap[p].CreatedAt > now - CleanupAge
                            => (activeChallenges'[id] = p /\ heap'[p] = heap[p])]_vars

\* a sweep has removed one record and left a younger one that was there
C7_Witness ==
    \E p \in DOMAIN heap, q \in Stored :
        /\ removedBy[p] = "sweep"
        /\ heap[q].CreatedAt > heap[p].CreatedAt
        /\ heap[q].CreatedAt <= heap[p].CreatedAt + CleanupAge

\* C8: a submission that does not parse is answered 400, one whose identifier
\* is absent at lookup is answered 404; neither gets a verdict and none of
\* their steps changes the map or a record.
C8_RejectedLeavesStore ==
    [][/\ ((\A w \in Workers : pc'[w] = pc[w]) /\ started'.answer # started.answer)
            => /\ lastDone'.code = 400 /\ lastDone'.verdict = "NONE"
               /\ activeChallenges' = activeChallenges /\ heap' = heap
       /\ \A w \in Workers :
            /\ (pc[w] \in {"answer_rlock", "answer_lookup"} /\ pc'[w] # pc[w])
                  => (activeChallenges' = activeChallenges /\ heap' = heap)
            /\ (/\ pc[w] = "answer_lookup" /\ pc'[w] # pc[w]
                /\ activeChallenges[response[w].ChallengeID] = Nil)
                  => challengeData'[w] = Nil
            /\ (pc[w] = "answer_check" /\ pc'[w] # pc[w] /\ challengeData[w] = Nil)
                  => /\ pc'[w] = "idle"
                     /\ lastDone'.code = 404 /\ lastDone'.verdict = "NONE"
                     /\ activeChallenges' = activeChallenges /\ heap' = heap]_vars

\* a submission was answered 404 while a record issued since its lookup sits
\* under its identifier
C8_Witness ==
    /\ lastDone.handler = "answer" /\ lastDone.code = 404
    /\ activeChallenges[lastDone.challenge_id] # Nil

\* nearest, as the specification states it: the first candidate in input
\* order among those no candidate is strictly nearer than
Nearest(origin, candidates) ==
    IF candidates = << >> THEN ""
    ELSE LET ds == [i \in DOMAIN candidates |-> distance3D(origin, candidates[i])]
             least == CHOOSE m \in {ds[i] : i \in DOMAIN ds} :
                         \A i \in DOMAIN ds : m <= ds[i]
             first == CHOOSE i \in DOMAIN ds :
                         ds[i] = least /\ \A j \in 1..(i - 1) : ds[j] # least
         IN  candidates[first].ID

\* C9: in every state, every record in the map carries as expected answer the
\* nearest target (first in order on ties) of its own challenge.
C9_ExpectedIsNearest ==
    \A p \in Stored :
        heap[p].ExpectedAnswer =
            Nearest(heap[p].Challenge.PlayerPos, heap[p].Challenge.Targets)

\* a stored record whose nearest target is not the first, with two targets tied
C9_Witness ==
    \E p \in Stored :
        LET t == heap[p].Challenge.Targets
        IN  /\ heap[p].ExpectedAnswer = "T1"
            /\ distance3D(PlayerPos, t[1]) = distance3D(PlayerPos, t[2])

\* C10: findClosestTarget returns "" for no candidates, and otherwise the
\* identifier of the first candidate in input order at the minimum distance
\* from the origin point.
C10_FindClosestIsNearest ==
    geoResult # NoGeo =>
        /\ geoResult = Nearest(geoOrigin, geoTargets)
        /\ geoTargets = << >> => geoResult = ""
        /\ geoTargets # << >> =>
              \E i \in DOMAIN geoTargets :
                  /\ geoTargets[i].ID = geoResult
                  /\ \A j \in DOMAIN geoTargets :
                        distance3D(geoOrigin, geoTargets[j])
                            >= distance3D(geoOrigin, geoTargets[i])

\* three candidates, the last two tied at the minimum: the second is returned
C10_Witness ==
    /\ geoResult = "T2"
    /\ Len(geoTargets) = 3
    /\ distance3D(geoOrigin, geoTargets[2]) = distance3D(geoOrigin, geoTargets[3])
    /\ distance3D(geoOrigin, geoTargets[1]) > distance3D(geoOrigin, geoTargets[2])

\* the challenges generated so far: in the hands of a handler, or in a record
Generated ==
    { challenge[w] : w \in { v \in Workers : pc[v] \in {"issue_lock", "issue_store"} } }
        \cup { heap[p].Challenge : p \in DOMAIN heap }

\* C11: every generated challenge has between 5 and 8 targets, pairwise
\* distinct target identifiers, and the origin as player position.
C11_GeneratedShape ==
    \A c \in Generated :
        /\ Len(c.Targets) >= 5 /\ Len(c.Targets) <= 8
        /\ \A i, j \in DOMAIN c.Targets :
              i # j => c.Targets[i].ID # c.Targets[j].ID
        /\ c.PlayerPos.X = 0 /\ c.PlayerPos.Y = 0 /\ c.PlayerPos.Z = 0

\* a record holds a challenge of eight targets
C11_Witness ==
    \E p \in DOMAIN heap : Len(heap[p].Challenge.Targets) = 8

\* C12: the delete of a submission removes no record other than the one the
\* submission was graded against.
C12_DeletesOnlyGradedRecord ==
    [][\A w \in Workers :
          (pc[w] = "answer_delete" /\ pc'[w] # "answer_delete")
              => activeChallenges[response[w].ChallengeID] \in {Nil, challengeData[w]}]_vars

\* C13: issuing allocates one record for the generated challenge, puts it
\* under the challenge's identifier in place of whatever was there, and leaves
\* every other identifier and every older record as they were; a record in
\* the map sits under its own identifier.
C13_IssueStoresOne ==
    [][\A w \in Workers :
          (pc[w] = "issue_store" /\ pc'[w] # "issue_store") =>
              LET id == challenge[w].ChallengeID
                  ptr == activeChallenges'[id]
              IN  /\ Len(heap') = Len(heap) + 1
                  /\ ptr = Len(heap')
                  /\ heap'[ptr].Challenge = challenge[w]
                  /\ \A p \in DOMAIN heap : heap'[p] = heap[p]
                  /\ \A other \in ChallengeIDs \ {id} :
                        activeChallenges'[other] = activeChallenges[other]
                  /\ \A k \in ChallengeIDs :
                        activeChallenges'[k] # Nil =>
                            heap'[activeChallenges'[k]].Challenge.ChallengeID = k]_vars

\* an issue has replaced the record that sat under its identifier
C13_Witness ==
    /\ lastDone.handler = "issue"
    /\ activeChallenges[lastDone.challenge_id] = lastDone.data
    /\ \E p \in DOMAIN heap :
          /\ removedBy[p] = "overwrite"
          /\ heap[p].Challenge.ChallengeID = lastDone.challenge_id

\* C17: within the deadline, a chosen id that is none of the challenge's
\* targets (the empty id included) is graded FAILURE with the expected
\* target's distance and a chosen distance of 0, and the record is consumed.
C17_UnknownTargetFails ==
    /\ \A w \in Workers :
          (pc[w] \in Graded
             /\ response[w].ClosestID \notin TargetIDs(heap[challengeData[w]]))
              => LET v == Written(w)
                     data == heap[challengeData[w]]
                 IN  /\ v.verdict = "FAILURE" /\ v.code = 400
                     /\ v.chosen_target = response[w].ClosestID
                     /\ v.correct_distance = DistanceTo(data, data.ExpectedAnswer)
                     /\ v.chosen_distance = 0
    /\ (/\ lastDone.verdict = "FAILURE"
        /\ lastDone.chosen_target \notin TargetIDs(heap[lastDone.data]))
          => /\ activeChallenges[lastDone.challenge_id] # lastDone.data
             /\ lastDone.chosen_distance = 0
             /\ lastDone.correct_distance =
                  DistanceTo(heap[lastDone.data], heap[lastDone.data].ExpectedAnswer)

C17_Witness ==
    /\ lastDone.verdict = "FAILURE"
    /\ lastDone.chosen_target = ""
    /\ lastDone.chosen_distance = 0
    /\ lastDone.correct_distance > 0
    /\ removedBy[lastDone.data] = "answer"

\* C15: a lookup made within one second of a record's CreatedAt, for the
\* record's identifier, finds that record unless an earlier submission's
\* delete or a colliding issue took it out of the map: the sweeper never has.
C15_FreshRecordIsFound ==
    [][\A w \in Workers :
          (pc[w] = "answer_lookup" /\ pc'[w] # "answer_lookup") =>
              \A p \in DOMAIN heap :
                  (/\ heap[p].Challenge.ChallengeID = response[w].ChallengeID
                   /\ now - heap[p].CreatedAt <= AnswerDeadline
                   /\ removedBy[p] \notin {"answer", "overwrite"})
                      => (removedBy[p] = "none" /\ challengeData'[w] = p)]_vars

\* a submission has found its record within the deadline after the sweeper
\* had run and removed an older record
C15_Witness ==
    \E w \in Workers, q \in DOMAIN heap :
        /\ pc[w] = "answer_check"
        /\ challengeData[w] # Nil
        /\ now - heap[challengeData[w]].CreatedAt <= AnswerDeadline
        /\ removedBy[q] = "sweep"

\* the last instant of the fair run at which the ticker fires
LastTick == (LiveHorizon \div TickerPeriod) * TickerPeriod

\* C14: under fairness, a record whose age passes 2 s before the ticker's
\* last tick is eventually out of the map, whether or not it is ever answered.
C14_RecordEventuallyRemoved ==
    \A p \in 1..MaxIssues :
        (p \in Stored /\ heap[p].CreatedAt + CleanupAge < LastTick)
            ~> (p \notin Stored)

\* a record nobody asked for has been taken out by the sweeper
C14_Witness ==
    /\ started.answer = 0
    /\ \E p \in DOMAIN heap : removedBy[p] = "sweep" /\ p \notin Stored

\* the five outcomes of a submission, as status code and verdict
AnswerOutcomes ==
    { <<400, "NONE">>, <<404, "NONE">>, <<408, "EXPIRED">>,
      <<200, "SUCCESS">>, <<400, "FAILURE">> }

\* C16: under fairness every started request returns and every sweep ends; a
\* goroutine that has returned holds challengeMutex in no mode; a submission
\* that has returned got one of the five outcomes.
C16_RequestsComplete ==
    /\ \A w \in Workers : (pc[w] # "idle") ~> (pc[w] = "idle")
    /\ (sweeperPc # "wait") ~> (sweeperPc = "wait")
    /\ [](\A w \in Workers :
             pc[w] \in {"idle", "issue_lock", "answer_rlock", "answer_check",
                        "answer_lock"}
                 => (w \notin rwReaders /\ rwWriter # w))
    /\ [](sweeperPc \in {"wait", "lock"} => rwWriter # Sweeper)
    /\ [](lastDone.handler = "answer"
             => << lastDone.code, lastDone.verdict >> \in AnswerOutcomes)

\* a submission has returned through the early return of the 408, every
\* request has returned, and challengeMutex is free
C16_Witness ==
    /\ lastDone.verdict = "EXPIRED"
    /\ \A w \in Workers : pc[w] = "idle"
    /\ rwWriter = NoHolder /\ rwReaders = {}
    /\ started.status = workload.status

====
